---- MODULE Spec2Model ----
(***************************************************************************)
(* Credential lifecycle and authenticated-request retry protocol of the    *)
(* Spotify client: tokenUtils (isTokenExpired, refreshAccessToken,         *)
(* getValidAccessToken), the SpotifyApiClient response interceptor and the *)
(* AuthProvider that feeds it.                                             *)
(*                                                                         *)
(* One action is one task of the browser's event loop: a handler runs from *)
(* the event that starts it (a call, a network response) up to its next    *)
(* network await.  localStorage is a function from the keys that are       *)
(* present to their string values; getItem of a missing key is Null.       *)
(***************************************************************************)
EXTENDS Integers, Sequences, FiniteSets, TLC

\* ---------------------------------------------------------------- bounds
\* how many times the clock advances
MaxTicks == 2

\* how far below 0 and above 100 the volumes passed to setPlaybackVolume go
VolumeMargin == 2

\* ------------------------------------------------------------- constants
\* JS null / undefined as seen by a truthiness test or a === null
Null == "null"

\* one step of the wall clock, in milliseconds
TickMs == 60 * 1000

\* tokenUtils.ts: 5 * 60 * 1000, the safety buffer of isTokenExpired
BufferMs == 5 * 60 * 1000

\* the clock (ms since the epoch) when the page is loaded
ClockStart == 10 * TickMs

\* the Web API requests: two, so that every pair of overlapping interceptor
\* runs occurs (an interceptor shares nothing with another but the store)
Requests == {1, 2}

\* what the token endpoint can answer to a refresh grant
NewAccessTokens == {"xyz", "uvw"}
NewRefreshTokens == {"r2"}
Durations == {60, 420}

TokenResponses ==
    [access_token : NewAccessTokens,
     expires_in : Durations,
     refresh_token : NewRefreshTokens \cup {Null}]

NoResponse == [access_token |-> Null, expires_in |-> 0, refresh_token |-> Null]

\* the ways an exchange with the token endpoint can end: a token response,
\* a rejection by the provider, or no response at all
TokenAnswers ==
    [kind : {"response"}, status : {200}, body : TokenResponses]
    \cup {[kind |-> "response", status |-> 400, body |-> NoResponse],
          [kind |-> "network", status |-> 0, body |-> NoResponse]}

\* the ways a Web API request can end: an HTTP response, or no response at all
ApiOutcomes ==
    [kind : {"response"}, status : {200, 401, 404}]
    \cup {[kind |-> "network", status |-> 0]}

\* the ways a request to a playback endpoint can end: those, and 204 No Content
PlaybackOutcomes == ApiOutcomes \cup {[kind |-> "response", status |-> 204]}

\* the arguments components pass to setPlaybackVolume
Volumes == (0 - VolumeMargin) .. (100 + VolumeMargin)
DeviceIds == {Null, "", "device1"}

VARIABLES
    storage,      \* window.localStorage
    clock,        \* Date.now()
    location,     \* window.location.href
    accessToken,  \* AuthProvider: useState accessToken
    provider,     \* AuthProvider: position of the fetchToken effect
    req,          \* the Web API requests issued through a SpotifyApiClient
    hook,         \* useAuthToken: its state and its refreshToken calls
    svc,          \* PlaybackService: the call a component made and its result
    playerHook    \* useSpotifyPlayer: its state, its ref and the SDK it uses

vars == <<storage, clock, location, accessToken, provider, req, hook, svc, playerHook>>

\* ------------------------------------------------------------ JS helpers
Truthy(v) == v # Null /\ v # ""

\* Storage.getItem / setItem / removeItem
getItem(s, k) == IF k \in DOMAIN s THEN s[k] ELSE Null

setItem(s, k, v) == [x \in DOMAIN s \cup {k} |-> IF x = k THEN v ELSE s[x]]

removeItem(s, k) == [x \in DOMAIN s \ {k} |-> s[x]]

\* Date.prototype.toISOString: the instant t (ms) as date and time fields
toISOString(t) ==
    [day |-> t \div 86400000,
     hour |-> (t % 86400000) \div 3600000,
     minute |-> (t % 3600000) \div 60000,
     second |-> (t % 60000) \div 1000,
     ms |-> t % 1000]

\* new Date(isoString).getTime()
parseDate(iso) ==
    iso.day * 86400000 + iso.hour * 3600000 + iso.minute * 60000
        + iso.second * 1000 + iso.ms

\* the Authorization header value for a token
Bearer(t) == "Bearer " \o t

\* ----------------------------------------------------------- auth.service
\* getRefreshToken resumed with the answer of the token endpoint: it resolves
\* with the body of a successful response and rejects on a non-success
\* status and on a network error
getRefreshToken(ans) ==
    IF ans.kind = "response" /\ ans.status >= 200 /\ ans.status < 300
    THEN [kind |-> "ok", resp |-> ans.body]
    ELSE [kind |-> "error", resp |-> NoResponse]

\* ------------------------------------------------------------ tokenUtils
\* isTokenExpired with a strict comparison
isTokenExpired_Strict(s, now) ==
    IF "expires" \notin DOMAIN s THEN TRUE
    ELSE parseDate(s["expires"]) < now + BufferMs

\* isTokenExpired that never finds the token expired
isTokenExpired_Never(s, now) == FALSE

\* isTokenExpired: no stored expiry counts as expired; otherwise the stored
\* instant is compared with five minutes from now
isTokenExpired(s, now) ==
    IF "expires" \notin DOMAIN s THEN TRUE
    ELSE parseDate(s["expires"]) <= now + BufferMs

\* refreshAccessToken without the check of the stored refresh token
refreshAccessToken_NoGuard(s) ==
    [kind |-> "exchange", value |-> Null, rt |-> getItem(s, "refresh_token")]

\* refreshAccessToken up to its await: without a stored refresh token it
\* returns null at once; otherwise getRefreshToken is called with it
refreshAccessToken(s) ==
    IF ~Truthy(getItem(s, "refresh_token"))
    THEN [kind |-> "return", value |-> Null, rt |-> Null]
    ELSE [kind |-> "exchange", value |-> Null, rt |-> getItem(s, "refresh_token")]

\* refreshStore that adds expires_in to the clock as if it were milliseconds
refreshStore_Seconds(s, now, resp) ==
    LET s1 == setItem(s, "access_token", resp.access_token)
        s2 == setItem(s1, "expires_in", ToString(resp.expires_in))
        s3 == setItem(s2, "expires", toISOString(now + resp.expires_in))
    IN IF Truthy(resp.refresh_token)
       THEN setItem(s3, "refresh_token", resp.refresh_token)
       ELSE s3

\* refreshStore that keeps what an earlier exchange has stored
refreshStore_FirstWins(s, now, resp) ==
    IF getItem(s, "access_token") \in NewAccessTokens THEN s
    ELSE setItem(setItem(setItem(s,
             "access_token", resp.access_token),
             "expires_in", ToString(resp.expires_in)),
             "expires", toISOString(now + resp.expires_in * 1000))

\* refreshAccessToken, try block after the await: the writes of a successful
\* exchange
refreshStore(s, now, resp) ==
    LET s1 == setItem(s, "access_token", resp.access_token)
        s2 == setItem(s1, "expires_in", ToString(resp.expires_in))
        s3 == setItem(s2, "expires", toISOString(now + resp.expires_in * 1000))
    IN IF Truthy(resp.refresh_token)
       THEN setItem(s3, "refresh_token", resp.refresh_token)
       ELSE s3

\* clearTokens that leaves the refresh token in the store
clearTokens_KeepRefresh(s) ==
    removeItem(removeItem(removeItem(s, "access_token"), "expires_in"), "expires")

\* refreshAccessToken, catch block: the four removeItem calls
clearTokens(s) ==
    removeItem(removeItem(removeItem(removeItem(s,
        "access_token"), "refresh_token"), "expires_in"), "expires")

\* refreshAccessToken resumed with the outcome of the exchange: the storage
\* it leaves and the value it returns
refreshSettled(s, now, oc) ==
    IF oc.kind = "ok"
    THEN [store |-> refreshStore(s, now, oc.resp), value |-> oc.resp.access_token]
    ELSE [store |-> clearTokens(s), value |-> Null]

\* getValidAccessToken that refreshes whatever the stored expiry is
getValidAccessToken_AlwaysRefresh(s, now) ==
    IF ~Truthy(getItem(s, "access_token"))
    THEN [kind |-> "return", value |-> Null, rt |-> Null]
    ELSE refreshAccessToken(s)

\* getValidAccessToken that tries a refresh when no access token is stored
getValidAccessToken_RefreshWhenMissing(s, now) ==
    IF ~Truthy(getItem(s, "access_token")) \/ isTokenExpired(s, now)
    THEN refreshAccessToken(s)
    ELSE [kind |-> "return", value |-> getItem(s, "access_token"), rt |-> Null]

\* getValidAccessToken up to its await: either it returns a value at once or
\* it is waiting for the exchange started by refreshAccessToken
getValidAccessToken(s, now) ==
    IF ~Truthy(getItem(s, "access_token"))
    THEN [kind |-> "return", value |-> Null, rt |-> Null]
    ELSE IF isTokenExpired(s, now)
         THEN refreshAccessToken(s)
         ELSE [kind |-> "return", value |-> getItem(s, "access_token"), rt |-> Null]

\* ------------------------------------------------------- SpotifyApiClient
NoResult == [kind |-> "none", status |-> 0, attempt |-> 0, data |-> Null]

\* a request that has not been issued yet
IdleRequest ==
    [pc |-> "idle",          \* idle, sent, refreshing, done
     retry |-> FALSE,        \* originalRequest._retry
     auth |-> Null,          \* the request's Authorization header
     default |-> Null,       \* the client's default Authorization header
     sends |-> 0,            \* times the HTTP request went out
     calls |-> 0,            \* times the interceptor called getValidAccessToken
     rt |-> Null,            \* refresh token of the exchange it is waiting for
     err |-> NoResult,       \* the error the interceptor is handling
     result |-> NoResult]    \* what the caller of get/post/put/delete received

\* response.data of a successful response: a body for 200, none for 204
responseData(status) == IF status = 204 THEN "" ELSE "body"

\* the axios success test (validateStatus): 2xx
isSuccess(oc) == oc.kind = "response" /\ oc.status >= 200 /\ oc.status < 300

\* shouldRetry without the _retry marker
shouldRetry_NoMarker(oc, retry) == oc.kind = "response" /\ oc.status = 401

\* shouldRetry for every failure that has not been retried
shouldRetry_AnyFailure(oc, retry) == ~retry

\* the interceptor's condition for a refresh and retry
shouldRetry(oc, retry) == oc.kind = "response" /\ oc.status = 401 /\ ~retry

\* the promise of get/post/put/delete settles with res: the caller holds the
\* result; the request config, the error and the client are unreachable
settled(q, res) ==
    [q EXCEPT !.pc = "done", !.auth = Null, !.default = Null, !.rt = Null,
              !.err = NoResult, !.result = res]

\* afterAccessor that sends the request again with the header it had
afterAccessor_StaleHeader(q, v) ==
    IF Truthy(v)
    THEN [q EXCEPT !.pc = "sent", !.default = Bearer(v), !.sends = @ + 1, !.rt = Null]
    ELSE settled(q, q.err)

\* the interceptor after getValidAccessToken has yielded v for request q:
\* with a token, updateToken, the new header and the request sent again;
\* without one, the rejection of the original error (the redirect to /login
\* is the action's)
afterAccessor(q, v) ==
    IF Truthy(v)
    THEN [q EXCEPT !.pc = "sent", !.default = Bearer(v), !.auth = Bearer(v),
                   !.sends = @ + 1, !.rt = Null]
    ELSE settled(q, q.err)

\* loginRedirect that never navigates
loginRedirect_Stay(v, href) == href

\* the interceptor's else branch: window.location.href = '/login' when
\* getValidAccessToken yielded nothing
loginRedirect(v, href) == IF Truthy(v) THEN href ELSE "/login"

\* useSpotifyQueries queryFn: new SpotifyApi(accessToken) and one call of
\* get/post/put/delete on its client
Send(r) ==
    /\ req[r].pc = "idle"
    /\ Truthy(accessToken)
    /\ req' = [req EXCEPT ![r] = [@ EXCEPT !.pc = "sent",
                                          !.default = Bearer(accessToken),
                                          !.auth = Bearer(accessToken),
                                          !.sends = 1]]
    /\ UNCHANGED <<storage, clock, location, accessToken, provider>>

\* the answer to a request arrives: the response interceptor runs up to its
\* await of an exchange, or to the end
Respond(r, oc) ==
    /\ req[r].pc = "sent"
    /\ LET q == req[r]
           error == [kind |-> "rejected", status |-> oc.status,
                     attempt |-> q.sends, data |-> Null]
       IN IF isSuccess(oc)
          THEN /\ req' = [req EXCEPT ![r] = settled(q,
                              [kind |-> "resolved", status |-> oc.status,
                               attempt |-> q.sends,
                               data |-> responseData(oc.status)])]
               /\ UNCHANGED <<storage, location>>
          ELSE IF shouldRetry(oc, q.retry)
          THEN LET a == getValidAccessToken(storage, clock)
                   q1 == [q EXCEPT !.retry = TRUE, !.calls = @ + 1, !.err = error]
               IN IF a.kind = "exchange"
                  THEN /\ req' = [req EXCEPT ![r] = [q1 EXCEPT !.pc = "refreshing",
                                                               !.rt = a.rt]]
                       /\ UNCHANGED <<storage, location>>
                  ELSE /\ req' = [req EXCEPT ![r] = afterAccessor(q1, a.value)]
                       /\ location' = loginRedirect(a.value, location)
                       /\ UNCHANGED storage
          ELSE /\ req' = [req EXCEPT ![r] = settled(q, error)]
               /\ UNCHANGED <<storage, location>>
    /\ UNCHANGED <<clock, accessToken, provider>>

\* the token endpoint answers the exchange a request's interceptor waits for:
\* refreshAccessToken, getValidAccessToken and the interceptor run to the end
RefreshSettle(r, ans) ==
    /\ req[r].pc = "refreshing"
    /\ LET done == refreshSettled(storage, clock, getRefreshToken(ans))
       IN /\ storage' = done.store
          /\ req' = [req EXCEPT ![r] = afterAccessor(req[r], done.value)]
          /\ location' = loginRedirect(done.value, location)
    /\ UNCHANGED <<clock, accessToken, provider>>

\* ----------------------------------------------------------- AuthProvider
\* the URL the provider redirects back to after consent
CallbackUrl == "/?code=code1"

\* new URLSearchParams(window.location.search).get("code"), as a truth value
hasCode(href) == href = CallbackUrl

\* what the token endpoint can answer to an authorization_code grant: as for a
\* refresh grant, but a token response always carries a refresh_token
CodeAnswers ==
    {a \in TokenAnswers : a.status = 200 => a.body.refresh_token # Null}

\* getToken that does not look for the verifier
getToken_NoVerifierCheck(s) == [kind |-> "exchange", message |-> Null]

\* auth.service getToken up to its request to the token endpoint: it throws
\* when localStorage has no code_verifier
getToken(s) ==
    IF Truthy(getItem(s, "code_verifier"))
    THEN [kind |-> "exchange", message |-> Null]
    ELSE [kind |-> "throw", message |-> "Code verifier not found in localStorage"]

\* auth.service getToken once the token endpoint has answered: the body of
\* a token response, an error for every other status, the network's error
getTokenSettled(ans) ==
    IF ans.kind = "response" /\ ans.status = 200
    THEN [kind |-> "return", body |-> ans.body, message |-> Null]
    ELSE [kind |-> "throw", body |-> NoResponse,
          message |-> IF ans.kind = "network" THEN "Network error"
                      ELSE "Failed to fetch token"]

\* codeStore that adds expires_in to the clock as if it were milliseconds
codeStore_Millis(s, now, token) ==
    setItem(setItem(setItem(setItem(s,
        "access_token", token.access_token),
        "refresh_token", token.refresh_token),
        "expires_in", ToString(token.expires_in)),
        "expires", toISOString(now + token.expires_in))

\* codeStore without the expires key
codeStore_NoExpires(s, now, token) ==
    setItem(setItem(setItem(s,
        "access_token", token.access_token),
        "refresh_token", token.refresh_token),
        "expires_in", ToString(token.expires_in))

\* fetchToken's four setItem calls after getToken
codeStore(s, now, token) ==
    setItem(setItem(setItem(setItem(s,
        "access_token", token.access_token),
        "refresh_token", token.refresh_token),
        "expires_in", ToString(token.expires_in)),
        "expires", toISOString(now + token.expires_in * 1000))

\* the fetchToken effect with an authorization code in the URL, up to
\* getToken's request: a getToken that throws is caught and printed
FetchTokenCode ==
    /\ provider.pc = "mount"
    /\ hasCode(location)
    /\ provider' = [pc |-> IF getToken(storage).kind = "exchange"
                           THEN "exchanging" ELSE "ready",
                    rt |-> Null]
    /\ UNCHANGED <<storage, clock, location, accessToken, req>>

\* CodeSettle whose catch logs the user out
CodeSettle_LogoutOnFailure(ans) ==
    /\ provider.pc = "exchanging"
    /\ LET got == getTokenSettled(ans)
       IN IF got.kind = "return"
          THEN /\ storage' = codeStore(storage, clock, got.body)
               /\ accessToken' = got.body.access_token
               /\ location' = "/"
               /\ provider' = [pc |-> "mount", rt |-> Null]
          ELSE /\ provider' = [pc |-> "ready", rt |-> Null]
               /\ storage' = clearTokens(storage)
               /\ accessToken' = Null
               /\ UNCHANGED location
    /\ UNCHANGED <<clock, req>>

\* the token endpoint answers getToken's request: fetchToken stores the
\* tokens, sets accessToken and takes the code out of the URL, after which
\* the effect runs again, without a code; a getToken that throws is caught
\* and printed
CodeSettle(ans) ==
    /\ provider.pc = "exchanging"
    /\ LET got == getTokenSettled(ans)
       IN IF got.kind = "return"
          THEN /\ storage' = codeStore(storage, clock, got.body)
               /\ accessToken' = got.body.access_token
               /\ location' = "/"
               /\ provider' = [pc |-> "mount", rt |-> Null]
          ELSE /\ provider' = [pc |-> "ready", rt |-> Null]
               /\ UNCHANGED <<storage, accessToken, location>>
    /\ UNCHANGED <<clock, req>>

\* FetchToken that clears the record when getValidAccessToken yields nothing
FetchToken_ClearsOnNull ==
    /\ provider.pc = "mount"
    /\ ~hasCode(location)
    /\ LET a == getValidAccessToken(storage, clock)
       IN IF a.kind = "exchange"
          THEN /\ provider' = [pc |-> "refreshing", rt |-> a.rt]
               /\ UNCHANGED <<accessToken, storage>>
          ELSE /\ provider' = [pc |-> "ready", rt |-> Null]
               /\ accessToken' = a.value
               /\ storage' = IF Truthy(a.value) THEN storage ELSE clearTokens(storage)
    /\ UNCHANGED <<clock, location, req>>

\* the fetchToken effect without an authorization code in the URL:
\* getValidAccessToken, then setAccessToken (debugTokenInfo only prints)
FetchToken ==
    /\ provider.pc = "mount"
    /\ ~hasCode(location)
    /\ LET a == getValidAccessToken(storage, clock)
       IN IF a.kind = "exchange"
          THEN /\ provider' = [pc |-> "refreshing", rt |-> a.rt]
               /\ UNCHANGED <<accessToken>>
          ELSE /\ provider' = [pc |-> "ready", rt |-> Null]
               /\ accessToken' = a.value
    /\ UNCHANGED <<storage, clock, location, req>>

\* the token endpoint answers the exchange fetchToken waits for
FetchTokenSettle(ans) ==
    /\ provider.pc = "refreshing"
    /\ LET done == refreshSettled(storage, clock, getRefreshToken(ans))
       IN /\ storage' = done.store
          /\ accessToken' = done.value
    /\ provider' = [pc |-> "ready", rt |-> Null]
    /\ UNCHANGED <<clock, location, req>>

\* Logout that clears localStorage altogether
Logout_ClearsAll ==
    /\ storage' = [k \in {} |-> ""]
    /\ accessToken' = Null
    /\ UNCHANGED <<clock, location, provider, req>>

\* AuthProvider.logout: its four removeItem calls and setAccessToken(null)
Logout ==
    /\ storage' = removeItem(removeItem(removeItem(removeItem(storage,
                      "access_token"), "refresh_token"), "expires_in"), "expires")
    /\ accessToken' = Null
    /\ UNCHANGED <<clock, location, provider, req>>

\* -------------------------------------------------------- PlaybackService
\* what a call of a service method gave its caller
NoOutcome == [kind |-> "none", status |-> 0, data |-> Null, message |-> Null]

\* no call of the service made yet
IdleService ==
    [pc |-> "idle",          \* idle, waiting (in apiClient.get/put), done
     op |-> Null,            \* the method called
     volumePercent |-> 0,    \* setPlaybackVolume's arguments
     deviceId |-> Null,
     calls |-> <<>>,         \* the calls the method made on its apiClient
     result |-> NoOutcome]   \* what the method's promise settled with

\* the Web API request the service call goes out on
ServiceRequest == 1

\* the methods modelled: the two that map 204 to null, and setPlaybackVolume
PlaybackReads == {"getCurrentPlayback", "getCurrentlyPlaying"}
PlaybackOps == PlaybackReads \cup {"setPlaybackVolume"}

\* volumeInRange that lets every volume through
volumeInRange_Any(volumePercent) == TRUE

\* the negation of setPlaybackVolume's test volumePercent < 0 || volumePercent > 100
volumeInRange(volumePercent) == ~(volumePercent < 0 \/ volumePercent > 100)

\* setPlaybackVolume's params: device_id is Null where the object has no
\* such key
volumeParams(volumePercent, deviceId) ==
    [volume_percent |-> volumePercent,
     device_id |-> IF Truthy(deviceId) THEN deviceId ELSE Null]

\* the params of getCurrentPlayback and getCurrentlyPlaying called without
\* arguments
NoParams == [market |-> Null, additional_types |-> Null]

\* the call a method makes on its apiClient
clientCall(op, volumePercent, deviceId) ==
    CASE op = "getCurrentPlayback" ->
           [method |-> "get", url |-> "/me/player", params |-> NoParams]
      [] op = "getCurrentlyPlaying" ->
           [method |-> "get", url |-> "/me/player/currently-playing",
            params |-> NoParams]
      [] op = "setPlaybackVolume" ->
           [method |-> "put", url |-> "/me/player/volume",
            params |-> volumeParams(volumePercent, deviceId)]

\* what the method settles with once its apiClient call has settled with
\* res: getCurrentPlayback and getCurrentlyPlaying turn a rejection whose
\* response has status 204 into null and pass everything else on
serviceOutcome(op, res) ==
    IF op \in PlaybackReads /\ res.kind = "rejected" /\ res.status = 204
    THEN [kind |-> "resolved", status |-> res.status, data |-> Null, message |-> Null]
    ELSE [kind |-> res.kind, status |-> res.status, data |-> res.data, message |-> Null]

\* the method's continuation once request q of its apiClient call is settled
afterClient(s, q) ==
    IF q.pc = "done"
    THEN [s EXCEPT !.pc = "done", !.result = serviceOutcome(s.op, q.result)]
    ELSE s

\* a component calls a method of the PlaybackService of a SpotifyApi built
\* with the provider's accessToken: setPlaybackVolume throws on a volume out
\* of range, otherwise the method calls apiClient.get or apiClient.put
ServiceCall(op, volumePercent, deviceId) ==
    /\ svc.pc = "idle"
    /\ Truthy(accessToken)
    /\ LET s == [svc EXCEPT !.op = op, !.volumePercent = volumePercent,
                            !.deviceId = deviceId]
       IN IF op = "setPlaybackVolume" /\ ~volumeInRange(volumePercent)
          THEN /\ svc' = [s EXCEPT !.pc = "done",
                                   !.result = [kind |-> "rejected", status |-> 0, data |-> Null,
                                               message |-> "Volume percent must be between 0 and 100"]]
               /\ UNCHANGED <<storage, clock, location, accessToken, provider, req>>
          ELSE /\ svc' = [s EXCEPT !.pc = "waiting",
                                   !.calls = Append(@, clientCall(op, volumePercent, deviceId))]
               /\ Send(ServiceRequest)
    /\ UNCHANGED <<hook, playerHook>>

\* the answer to the request of a service call arrives: the interceptor, then
\* apiClient.get/put and the method's continuation if the request is settled
ServiceRespond(oc) ==
    /\ svc.pc = "waiting"
    /\ Respond(ServiceRequest, oc)
    /\ svc' = afterClient(svc, req'[ServiceRequest])
    /\ UNCHANGED <<hook, playerHook>>

\* the token endpoint answers the exchange the interceptor of a service
\* call's request waits for
ServiceRefreshSettle(ans) ==
    /\ svc.pc = "waiting"
    /\ RefreshSettle(ServiceRequest, ans)
    /\ svc' = afterClient(svc, req'[ServiceRequest])
    /\ UNCHANGED <<hook, playerHook>>

\* ------------------------------------------------------------ useAuthToken
\* the refreshToken calls that can be in progress at once
Calls == {1, 2}

IdleCall == [pc |-> "idle", rt |-> Null]

\* the hook before its first effect: useState(null), useState(true),
\* useState(null); effectDep is the accessToken the token effect last ran with
InitialHook ==
    [accessToken |-> Null,
     isLoading |-> TRUE,
     error |-> Null,
     effectDep |-> "unmounted",
     calls |-> [c \in Calls |-> IdleCall]]

\* whether the hook's getValidAccessToken call throws (localStorage refusing
\* access makes it throw)
Faults == {FALSE, TRUE}
FaultMessage == "The operation is insecure."

\* refreshToken after getValidAccessToken has yielded v, finally included
refreshTokenDone(h, v) ==
    IF Truthy(v)
    THEN [h EXCEPT !.accessToken = v, !.isLoading = FALSE]
    ELSE [h EXCEPT !.accessToken = Null, !.error = "No valid token available",
                   !.isLoading = FALSE]

\* refreshTokenThrew that leaves isLoading as it was
refreshTokenThrew_StillLoading(h, message) ==
    [h EXCEPT !.error = message, !.accessToken = Null]

\* refreshToken's catch and finally
refreshTokenThrew(h, message) ==
    [h EXCEPT !.error = message, !.accessToken = Null, !.isLoading = FALSE]

\* refreshToken called as call c on hook state h, up to the request of an
\* exchange or, without one, to its end
refreshToken(h, c, s, now, fault) ==
    LET h0 == [h EXCEPT !.isLoading = TRUE, !.error = Null]
        a == getValidAccessToken(s, now)
    IN IF fault THEN refreshTokenThrew(h0, FaultMessage)
       ELSE IF a.kind = "exchange"
       THEN [h0 EXCEPT !.calls[c] = [pc |-> "waiting", rt |-> a.rt]]
       ELSE refreshTokenDone(h0, a.value)

\* the effect on [refreshToken, accessToken]: it runs after the first render
\* and after every render with another accessToken, and calls refreshToken
TokenEffect(c, fault) ==
    /\ hook.calls[c].pc = "idle"
    /\ hook.effectDep # hook.accessToken
    /\ hook' = refreshToken([hook EXCEPT !.effectDep = hook.accessToken],
                            c, storage, clock, fault)
    /\ UNCHANGED <<storage, clock, location, accessToken, provider, req, svc, playerHook>>

\* the effect's 30 s interval: refreshToken if the accessToken of the render
\* the effect ran in is set and isTokenExpired()
TokenInterval(c, fault) ==
    /\ hook.calls[c].pc = "idle"
    /\ hook.effectDep # "unmounted"
    /\ Truthy(hook.effectDep)
    /\ isTokenExpired(storage, clock)
    /\ hook' = refreshToken(hook, c, storage, clock, fault)
    /\ UNCHANGED <<storage, clock, location, accessToken, provider, req, svc, playerHook>>

\* a component calls the refreshToken the hook returned
RefreshTokenCall(c, fault) ==
    /\ hook.calls[c].pc = "idle"
    /\ hook.effectDep # "unmounted"
    /\ hook' = refreshToken(hook, c, storage, clock, fault)
    /\ UNCHANGED <<storage, clock, location, accessToken, provider, req, svc, playerHook>>

\* forceRefresh: setAccessToken(null), then refreshToken
ForceRefresh(c, fault) ==
    /\ hook.calls[c].pc = "idle"
    /\ hook.effectDep # "unmounted"
    /\ hook' = refreshToken([hook EXCEPT !.accessToken = Null],
                            c, storage, clock, fault)
    /\ UNCHANGED <<storage, clock, location, accessToken, provider, req, svc, playerHook>>

\* the token endpoint answers the exchange refreshToken call c waits for:
\* refreshAccessToken, getValidAccessToken and refreshToken run to the end
HookSettle(c, ans) ==
    /\ hook.calls[c].pc = "waiting"
    /\ LET done == refreshSettled(storage, clock, getRefreshToken(ans))
       IN /\ storage' = done.store
          /\ hook' = refreshTokenDone([hook EXCEPT !.calls[c] = IdleCall], done.value)
    /\ UNCHANGED <<clock, location, accessToken, provider, req, svc, playerHook>>

\* HookLogout that leaves expires in localStorage
HookLogout_KeepExpires ==
    /\ hook.effectDep # "unmounted"
    /\ storage' = removeItem(removeItem(removeItem(storage,
                      "access_token"), "refresh_token"), "expires_in")
    /\ hook' = [hook EXCEPT !.accessToken = Null, !.error = Null]
    /\ UNCHANGED <<clock, location, accessToken, provider, req, svc, playerHook>>

\* useAuthToken.logout: four removeItem calls, setAccessToken(null),
\* setError(null)
HookLogout ==
    /\ hook.effectDep # "unmounted"
    /\ storage' = removeItem(removeItem(removeItem(removeItem(storage,
                      "access_token"), "refresh_token"), "expires_in"), "expires")
    /\ hook' = [hook EXCEPT !.accessToken = Null, !.error = Null]
    /\ UNCHANGED <<clock, location, accessToken, provider, req, svc, playerHook>>

\* what the hook returns as isAuthenticated: !!accessToken
isAuthenticated(h) == Truthy(h.accessToken)

\* -------------------------------------------------------- useSpotifyPlayer
\* what the Web Playback SDK passes to the 'ready' and 'not_ready' listeners
SdkDeviceIds == {"device1", "device2"}

Tracks == {"track1"}
Positions == {0, 1000}
duration_ms(track) == IF track = "track1" THEN 180000 ELSE 0

\* what the SDK passes to the 'player_state_changed' listener: null, or a
\* state whose track_window may have no current_track
NoState == [isNull |-> TRUE, paused |-> TRUE, position |-> 0, current_track |-> Null]
SdkStates ==
    {NoState} \cup [isNull : {FALSE}, paused : BOOLEAN, position : Positions,
                    current_track : Tracks \cup {Null}]

\* useState<PlayerState>
InitialPlayerState ==
    [is_paused |-> TRUE, is_active |-> FALSE, position |-> 0, duration |-> 0,
     current_track |-> Null, device_id |-> Null]

\* sdk: window.Spotify is defined; onSdkReady: the accessToken in the closure
\* of window.onSpotifyWebPlaybackSDKReady; ref: playerRef.current is set;
\* effectDep: the accessToken of the initializePlayer the effect last ran for
InitialPlayer(sdk) ==
    [sdk |-> sdk, onSdkReady |-> "unset", ref |-> FALSE, player |-> FALSE,
     effectDep |-> "unmounted", isReady |-> FALSE,
     playerState |-> InitialPlayerState]

\* the 'player_state_changed' listener
playerStateChanged(prev, state) ==
    IF state.isNull THEN prev
    ELSE [is_paused |-> state.paused,
          is_active |-> state.current_track # Null,
          position |-> state.position,
          duration |-> duration_ms(state.current_track),
          current_track |-> state.current_track,
          device_id |-> Null]

\* initializePlayer, in the closure that holds accessToken token
initializePlayer(p, token) ==
    IF ~Truthy(token) \/ ~p.sdk \/ p.ref THEN p
    ELSE [p EXCEPT !.ref = TRUE, !.player = TRUE]

\* the effect on [initializePlayer]: the cleanup of its last run, then
\* initializePlayer, or its registration for when the SDK has loaded
PlayerEffect ==
    /\ playerHook.effectDep # hook.accessToken
    /\ LET cleaned == [playerHook EXCEPT !.ref = FALSE,
                                         !.effectDep = hook.accessToken]
       IN  playerHook' =
             IF cleaned.sdk THEN initializePlayer(cleaned, hook.accessToken)
             ELSE [cleaned EXCEPT !.onSdkReady = hook.accessToken]
    /\ UNCHANGED <<storage, clock, location, accessToken, provider, req, hook, svc>>

\* the SDK script has loaded and calls window.onSpotifyWebPlaybackSDKReady
SdkLoaded ==
    /\ ~playerHook.sdk
    /\ LET loaded == [playerHook EXCEPT !.sdk = TRUE]
       IN  playerHook' =
             IF loaded.onSdkReady = "unset" THEN loaded
             ELSE initializePlayer(loaded, loaded.onSdkReady)
    /\ UNCHANGED <<storage, clock, location, accessToken, provider, req, hook, svc>>

\* the 'ready' listener
Ready(device_id) ==
    /\ playerHook.ref
    /\ playerHook' = [playerHook EXCEPT !.playerState.device_id = device_id,
                                        !.isReady = TRUE]
    /\ UNCHANGED <<storage, clock, location, accessToken, provider, req, hook, svc>>

\* the 'not_ready' listener
NotReady(device_id) ==
    /\ playerHook.ref
    /\ playerHook' = [playerHook EXCEPT !.isReady = FALSE]
    /\ UNCHANGED <<storage, clock, location, accessToken, provider, req, hook, svc>>

PlayerStateChanged(state) ==
    /\ playerHook.ref
    /\ playerHook' = [playerHook EXCEPT
                        !.playerState = playerStateChanged(@, state)]
    /\ UNCHANGED <<storage, clock, location, accessToken, provider, req, hook, svc>>

\* ------------------------------------------------------------ environment
Tick ==
    /\ clock < ClockStart + MaxTicks * TickMs
    /\ clock' = clock + TickMs
    /\ UNCHANGED <<storage, location, accessToken, provider, req>>

\* what localStorage can hold when the page is loaded: nothing, or what an
\* earlier visit left there
StoredRecord(rt, e) ==
    [k \in {"access_token", "refresh_token", "expires_in", "expires"} |->
        CASE k = "access_token" -> "abc"
          [] k = "refresh_token" -> rt
          [] k = "expires_in" -> ToString(3600)
          [] k = "expires" -> toISOString(e)]

InitExpiries ==
    {ClockStart - TickMs, ClockStart + BufferMs + TickMs,
     ClockStart + BufferMs + (MaxTicks + 1) * TickMs}

InitStorages ==
    {[k \in {} |-> ""]}
    \cup {StoredRecord("r1", e) : e \in InitExpiries}
    \cup {removeItem(StoredRecord("r1", e), "refresh_token") : e \in InitExpiries}
    \cup {removeItem(StoredRecord("r1", ClockStart), "access_token")}

Init ==
    /\ storage \in InitStorages
    /\ clock = ClockStart
    /\ location = "/"
    /\ accessToken = getItem(storage, "access_token")
    /\ provider = [pc |-> "mount", rt |-> Null]
    /\ req = [r \in Requests |-> IdleRequest]
    /\ hook = InitialHook
    /\ svc = IdleService
    /\ playerHook = InitialPlayer(FALSE)

\* the AuthProvider and the queries sent through SpotifyApiClients
Next ==
    \/ \E r \in Requests : Send(r) /\ UNCHANGED <<hook, svc, playerHook>>
    \/ \E r \in Requests, oc \in ApiOutcomes :
          Respond(r, oc) /\ UNCHANGED <<hook, svc, playerHook>>
    \/ \E r \in Requests, ans \in TokenAnswers :
          RefreshSettle(r, ans) /\ UNCHANGED <<hook, svc, playerHook>>
    \/ FetchToken /\ UNCHANGED <<hook, svc, playerHook>>
    \/ \E ans \in TokenAnswers : FetchTokenSettle(ans) /\ UNCHANGED <<hook, svc, playerHook>>
    \/ Logout /\ UNCHANGED <<hook, svc, playerHook>>
    \/ Tick /\ UNCHANGED <<hook, svc, playerHook>>

Spec == Init /\ [][Next]_vars

\* a component's call of the PlaybackService, through its SpotifyApiClient
NextPlayback ==
    \/ \E op \in PlaybackOps, v \in Volumes, d \in DeviceIds :
          /\ op \in PlaybackReads => v = 0 /\ d = Null
          /\ ServiceCall(op, v, d)
    \/ \E oc \in PlaybackOutcomes : ServiceRespond(oc)
    \/ \E ans \in TokenAnswers : ServiceRefreshSettle(ans)
    \/ FetchToken /\ UNCHANGED <<hook, svc, playerHook>>
    \/ \E ans \in TokenAnswers : FetchTokenSettle(ans) /\ UNCHANGED <<hook, svc, playerHook>>

SpecPlayback == Init /\ [][NextPlayback]_vars

\* the token endpoint's answers that issue a token
IssuingAnswers == {a \in TokenAnswers : a.kind = "response" /\ a.status = 200}

\* the AuthProvider and the queries while the token endpoint answers every
\* refresh with a token: the record is then removed by logout alone
NextLogout ==
    \/ \E r \in Requests : Send(r) /\ UNCHANGED <<hook, svc, playerHook>>
    \/ \E r \in Requests, oc \in ApiOutcomes :
          Respond(r, oc) /\ UNCHANGED <<hook, svc, playerHook>>
    \/ \E r \in Requests, ans \in IssuingAnswers :
          RefreshSettle(r, ans) /\ UNCHANGED <<hook, svc, playerHook>>
    \/ FetchToken /\ UNCHANGED <<hook, svc, playerHook>>
    \/ \E ans \in IssuingAnswers : FetchTokenSettle(ans) /\ UNCHANGED <<hook, svc, playerHook>>
    \/ Logout /\ UNCHANGED <<hook, svc, playerHook>>
    \/ Tick /\ UNCHANGED <<hook, svc, playerHook>>

SpecLogout == Init /\ [][NextLogout]_vars

\* useAuthToken left to itself after its mount: the effect on [refreshToken,
\* accessToken] and the exchanges its refreshToken calls start; no user
\* action, no storage event, no fault of localStorage; time may pass
NextEffects ==
    \/ (\E c \in Calls : TokenEffect(c, FALSE))
    \/ (\E c \in Calls, ans \in TokenAnswers : HookSettle(c, ans))
    \/ (Tick /\ UNCHANGED <<hook, svc, playerHook>>)

SpecEffects == Init /\ [][NextEffects]_vars

\* React runs a pending effect, and the token endpoint answers every exchange
FairSpecEffects ==
    /\ SpecEffects
    /\ WF_vars(\E c \in Calls : TokenEffect(c, FALSE))
    /\ \A c \in Calls : WF_vars(\E ans \in TokenAnswers : HookSettle(c, ans))

\* the page loaded on the redirect back from the provider, or without a code,
\* with or without the verifier the Authorization Initiator left
InitAuth ==
    /\ \E s \in InitStorages : storage \in {s, setItem(s, "code_verifier", "verifier1")}
    /\ clock = ClockStart
    /\ location \in {"/", CallbackUrl}
    /\ accessToken = getItem(storage, "access_token")
    /\ provider = [pc |-> "mount", rt |-> Null]
    /\ req = [r \in Requests |-> IdleRequest]
    /\ hook = InitialHook
    /\ svc = IdleService
    /\ playerHook = InitialPlayer(FALSE)

\* the AuthProvider with the authorization-code exchange, and one query
NextAuth ==
    \/ FetchTokenCode /\ UNCHANGED <<hook, svc, playerHook>>
    \/ \E ans \in CodeAnswers : CodeSettle(ans) /\ UNCHANGED <<hook, svc, playerHook>>
    \/ FetchToken /\ UNCHANGED <<hook, svc, playerHook>>
    \/ \E ans \in TokenAnswers : FetchTokenSettle(ans) /\ UNCHANGED <<hook, svc, playerHook>>
    \/ Send(ServiceRequest) /\ UNCHANGED <<hook, svc, playerHook>>
    \/ \E oc \in ApiOutcomes : Respond(ServiceRequest, oc) /\ UNCHANGED <<hook, svc, playerHook>>
    \/ \E ans \in TokenAnswers :
          RefreshSettle(ServiceRequest, ans) /\ UNCHANGED <<hook, svc, playerHook>>
    \/ Logout /\ UNCHANGED <<hook, svc, playerHook>>
    \/ Tick /\ UNCHANGED <<hook, svc, playerHook>>

SpecAuth == InitAuth /\ [][NextAuth]_vars

\* a component using useAuthToken, under an AuthProvider whose logout is used
NextHook ==
    \/ \E c \in Calls, fault \in Faults : TokenEffect(c, fault)
    \/ \E c \in Calls, fault \in Faults : TokenInterval(c, fault)
    \/ \E c \in Calls, fault \in Faults : RefreshTokenCall(c, fault)
    \/ \E c \in Calls, fault \in Faults : ForceRefresh(c, fault)
    \/ \E c \in Calls, ans \in TokenAnswers : HookSettle(c, ans)
    \/ HookLogout
    \/ Logout /\ UNCHANGED <<hook, svc, playerHook>>
    \/ Tick /\ UNCHANGED <<hook, svc, playerHook>>

SpecHook == Init /\ [][NextHook]_vars

\* the token endpoint answers every exchange (fetch settles its promise)
FairSpecHook ==
    SpecHook /\ \A c \in Calls : WF_vars(\E ans \in TokenAnswers : HookSettle(c, ans))

\* a component using useSpotifyPlayer, whose useAuthToken obtains the token
\* the player is created with; the SDK script may be loaded already
InitPlayer ==
    /\ storage \in InitStorages
    /\ clock = ClockStart
    /\ location = "/"
    /\ accessToken = getItem(storage, "access_token")
    /\ provider = [pc |-> "mount", rt |-> Null]
    /\ req = [r \in Requests |-> IdleRequest]
    /\ hook = InitialHook
    /\ svc = IdleService
    /\ \E sdk \in BOOLEAN : playerHook = InitialPlayer(sdk)

NextPlayer ==
    \/ (\E c \in Calls : TokenEffect(c, FALSE))
    \/ (\E c \in Calls, ans \in TokenAnswers : HookSettle(c, ans))
    \/ HookLogout
    \/ PlayerEffect
    \/ SdkLoaded
    \/ (\E device_id \in SdkDeviceIds : Ready(device_id))
    \/ (\E device_id \in SdkDeviceIds : NotReady(device_id))
    \/ (\E state \in SdkStates : PlayerStateChanged(state))

SpecPlayer == InitPlayer /\ [][NextPlayer]_vars

\* ================================================================ claims
\* what the claims say about the store, stated on the stored strings
HasAccess == "access_token" \in DOMAIN storage
HasRefresh == "refresh_token" \in DOMAIN storage
HasExpiry == "expires" \in DOMAIN storage
TokenKeys == {"access_token", "refresh_token", "expires_in", "expires"}

\* the stored expiry instant lies more than five minutes ahead of the clock
StoredFresh == HasExpiry /\ parseDate(storage["expires"]) - clock > 5 * 60 * 1000

Is401(oc) == oc.kind = "response" /\ oc.status = 401

\* the token endpoint issued a token response / the exchange failed
Issued(ans) == ans.kind = "response" /\ ans.status = 200
Failed(ans) == ans.kind = "network" \/ ans.status # 200

\* C1: a request is sent at most twice and the interceptor calls
\* getValidAccessToken at most once for it, whatever the responses are; a 401
\* answer to the second send is rejected to the caller as that second failure,
\* without another call of getValidAccessToken and without a third send.
C1_AtMostTwoSends ==
    /\ [](\A r \in Requests : req[r].sends <= 2 /\ req[r].calls <= 1)
    /\ [][\A r \in Requests, oc \in ApiOutcomes :
            (req[r].sends = 2 /\ Is401(oc) /\ Respond(r, oc))
                => /\ req'[r].pc = "done"
                   /\ req'[r].result = [kind |-> "rejected", status |-> 401,
                                        attempt |-> 2, data |-> Null]
                   /\ req'[r].calls = req[r].calls
                   /\ req'[r].sends = 2
                   /\ storage' = storage]_vars

\* C1 witness: a request was rejected with the 401 of its second send
C1_Witness ==
    \E r \in Requests :
        /\ req[r].pc = "done" /\ req[r].sends = 2 /\ req[r].calls = 1
        /\ req[r].result.kind = "rejected" /\ req[r].result.status = 401
        /\ req[r].result.attempt = 2

\* C2: when the first answer is 401 and getValidAccessToken yields a token C
\* (the stored one while it is fresh, or the one a refresh exchange issues),
\* the request is marked retried and sent again once with 'Bearer C'; the
\* caller receives the outcome of that second send, the body on success.
C2_RetryWithNewCredential ==
    [][\A r \in Requests :
        /\ \A oc \in ApiOutcomes :
              (req[r].sends = 1 /\ Is401(oc) /\ HasAccess /\ StoredFresh
                  /\ Respond(r, oc))
                 => /\ req'[r].pc = "sent" /\ req'[r].retry
                    /\ req'[r].sends = 2
                    /\ req'[r].auth = "Bearer " \o storage["access_token"]
        /\ \A ans \in TokenAnswers :
              (Issued(ans) /\ RefreshSettle(r, ans))
                 => /\ req'[r].pc = "sent" /\ req'[r].retry
                    /\ req'[r].sends = 2
                    /\ req'[r].auth = "Bearer " \o ans.body.access_token
        /\ \A oc \in ApiOutcomes :
              (req[r].sends = 2 /\ Respond(r, oc))
                 => /\ req'[r].pc = "done" /\ req'[r].sends = 2
                    /\ req'[r].result.attempt = 2
                    /\ req'[r].result.status = oc.status
                    /\ (oc.kind = "response" /\ oc.status = 200
                          => /\ req'[r].result.kind = "resolved"
                             /\ req'[r].result.data = "body")]_vars

\* C2 witness: a caller received the body of the second send, made with a
\* token that a refresh issued
C2_Witness ==
    \E r \in Requests :
        /\ req[r].pc = "done" /\ req[r].retry /\ req[r].sends = 2
        /\ req[r].result.kind = "resolved" /\ req[r].result.attempt = 2
        /\ req[r].result.data = "body"
        /\ HasAccess /\ storage["access_token"] \in NewAccessTokens

\* C3: when the first answer is 401 and getValidAccessToken yields null (no
\* stored access token, an expired one without a refresh token, or a failed
\* exchange), the request is not sent again, the location becomes '/login'
\* and the call is rejected with the 401 of the first send.
C3_NullCredentialRedirects ==
    [][\A r \in Requests :
        /\ \A oc \in ApiOutcomes :
              (req[r].sends = 1 /\ Is401(oc)
                  /\ (~HasAccess \/ (~StoredFresh /\ ~HasRefresh))
                  /\ Respond(r, oc))
                 => /\ req'[r].pc = "done" /\ req'[r].sends = 1
                    /\ req'[r].result = [kind |-> "rejected", status |-> 401,
                                         attempt |-> 1, data |-> Null]
                    /\ location' = "/login"
        /\ \A ans \in TokenAnswers :
              (Failed(ans) /\ RefreshSettle(r, ans))
                 => /\ req'[r].pc = "done" /\ req'[r].sends = 1
                    /\ req'[r].result = [kind |-> "rejected", status |-> 401,
                                         attempt |-> 1, data |-> Null]
                    /\ location' = "/login"]_vars

\* C3 witness: a request sent once was rejected with its 401 and the page
\* was sent to the login
C3_Witness ==
    /\ location = "/login"
    /\ \E r \in Requests :
        /\ req[r].pc = "done" /\ req[r].sends = 1 /\ req[r].calls = 1
        /\ req[r].result.kind = "rejected" /\ req[r].result.status = 401

\* C4: a failure that is not a 401 response (another status, or no response)
\* is rejected to the caller as it is: getValidAccessToken is not called,
\* nothing is sent again, the location and the store stay as they are.
C4_OtherFailuresPassThrough ==
    [][\A r \in Requests, oc \in ApiOutcomes :
        ((oc.kind = "network" \/ oc.status >= 400) /\ ~Is401(oc) /\ Respond(r, oc))
            => /\ req'[r].pc = "done"
               /\ req'[r].result = [kind |-> "rejected", status |-> oc.status,
                                    attempt |-> req[r].sends, data |-> Null]
               /\ req'[r].calls = req[r].calls
               /\ req'[r].sends = req[r].sends
               /\ req'[r].retry = req[r].retry
               /\ location' = location
               /\ storage' = storage]_vars

\* C4 witness: a first send failed without a response and was rejected with
\* no call of getValidAccessToken
C4_Witness ==
    \E r \in Requests :
        /\ req[r].pc = "done" /\ req[r].sends = 1 /\ req[r].calls = 0
        /\ ~req[r].retry
        /\ req[r].result.kind = "rejected" /\ req[r].result.status = 0
        /\ location = "/"

\* the set of requests whose interceptor waits for a refresh exchange
Exchanging == {r \in Requests : req[r].pc = "refreshing"}

\* the store right after a successful exchange answered resp at the clock
StoredAfter(resp) ==
    /\ storage'["access_token"] = resp.access_token
    /\ storage'["expires_in"] = ToString(resp.expires_in)
    /\ parseDate(storage'["expires"]) = clock + resp.expires_in * 1000
    /\ getItem(storage', "refresh_token") =
          IF resp.refresh_token # Null THEN resp.refresh_token
          ELSE getItem(storage, "refresh_token")

\* C5: when a refresh exchange fails (a network error or a non-success
\* status), refreshAccessToken leaves none of
\* access_token, refresh_token, expires_in and expires in the store, whatever
\* they held before.
C5_FailedRefreshClearsRecord ==
    [][\A ans \in TokenAnswers :
        (Failed(ans)
            /\ (FetchTokenSettle(ans) \/ \E r \in Requests : RefreshSettle(r, ans)))
          => DOMAIN storage' \cap TokenKeys = {}]_vars

\* C5 witness: a request's refresh failed (the provider still shows the token it
\* read at load, so no logout ran) and the store holds none of the four fields
C5_Witness ==
    /\ accessToken = "abc"
    /\ DOMAIN storage \cap TokenKeys = {}
    /\ \E r \in Requests : req[r].pc = "done" /\ req[r].calls = 1 /\ req[r].sends = 1

\* C6: with an expired stored access token and a stored refresh token,
\* getValidAccessToken starts an exchange; when the exchange succeeds with
\* (A, D, optional R) it returns A and the store holds access_token = A,
\* expires_in = D, expires = clock at the write + D seconds, and
\* refresh_token = R if R was issued, else the refresh token it held before.
C6_SuccessfulRefreshStores ==
    [][/\ (HasAccess /\ ~StoredFresh /\ HasRefresh /\ FetchToken)
            => /\ provider'.pc = "refreshing"
               /\ provider'.rt = storage["refresh_token"]
       /\ \A ans \in TokenAnswers :
            /\ (Issued(ans) /\ FetchTokenSettle(ans))
                  => accessToken' = ans.body.access_token /\ StoredAfter(ans.body)
            /\ \A r \in Requests :
                 (Issued(ans) /\ RefreshSettle(r, ans))
                    => /\ req'[r].auth = "Bearer " \o ans.body.access_token
                       /\ StoredAfter(ans.body)]_vars

\* C6 witness: the provider holds a token a refresh issued, and the store
\* holds it with the expiry of a 420 s validity written at this clock
C6_Witness ==
    /\ provider.pc = "ready"
    /\ accessToken \in NewAccessTokens
    /\ HasAccess /\ storage["access_token"] = accessToken
    /\ storage["expires_in"] = "420"
    /\ parseDate(storage["expires"]) = clock + 420000

\* C7: with a stored access token whose expiry is more than five minutes
\* ahead, getValidAccessToken returns the stored token, starts no exchange
\* with the token endpoint and leaves the store as it is.
C7_FreshTokenReturnedUnchanged ==
    [][/\ (HasAccess /\ StoredFresh /\ FetchToken)
            => /\ accessToken' = storage["access_token"]
               /\ provider'.pc = "ready"
               /\ storage' = storage
       /\ \A r \in Requests, oc \in ApiOutcomes :
            (req[r].sends = 1 /\ Is401(oc) /\ HasAccess /\ StoredFresh
                /\ Respond(r, oc))
              => /\ req'[r].pc = "sent"
                 /\ req'[r].auth = "Bearer " \o storage["access_token"]
                 /\ Exchanging' = Exchanging
                 /\ storage' = storage]_vars

\* C7 witness: the provider obtained the token stored at load while it was
\* fresh, with the whole record still in the store
C7_Witness ==
    /\ provider.pc = "ready"
    /\ accessToken = "abc"
    /\ HasAccess /\ storage["access_token"] = "abc" /\ StoredFresh
    /\ TokenKeys \subseteq DOMAIN storage

\* C8: getValidAccessToken always ends with a value, and with null when no
\* access token is stored (no exchange is started, even with a refresh token
\* in the store), when the stored token is expired and no refresh token is
\* stored, and when the exchange fails.
C8_NullCases ==
    [][/\ (~HasAccess /\ FetchToken)
            => /\ accessToken' = Null /\ provider'.pc = "ready"
               /\ storage' = storage
       /\ (HasAccess /\ ~StoredFresh /\ ~HasRefresh /\ FetchToken)
            => accessToken' = Null /\ provider'.pc = "ready"
       /\ \A ans \in TokenAnswers :
            (Failed(ans) /\ FetchTokenSettle(ans))
               => accessToken' = Null /\ provider'.pc = "ready"
       /\ \A r \in Requests, oc \in ApiOutcomes :
            (req[r].sends = 1 /\ Is401(oc) /\ ~HasAccess /\ Respond(r, oc))
               => req'[r].pc = "done" /\ Exchanging' = Exchanging]_vars

\* C8 witness: the provider got null although a refresh token is stored,
\* because no access token is
C8_Witness ==
    /\ provider.pc = "ready"
    /\ accessToken = Null
    /\ ~HasAccess /\ HasRefresh

\* C9: refreshAccessToken without a stored refresh token yields null and
\* sends nothing to the token endpoint: no exchange is ever in flight without
\* a refresh token, and a call in that state starts none.
C9_NoRefreshTokenNoRequest ==
    /\ [](/\ \A r \in Requests : req[r].pc = "refreshing" => req[r].rt # Null
          /\ provider.pc = "refreshing" => provider.rt # Null
          /\ ~HasRefresh =>
                /\ refreshAccessToken(storage).kind = "return"
                /\ refreshAccessToken(storage).value = Null)
    /\ [][/\ (HasAccess /\ ~StoredFresh /\ ~HasRefresh /\ FetchToken)
               => provider'.pc = "ready" /\ accessToken' = Null
          /\ \A r \in Requests, oc \in ApiOutcomes :
               (req[r].sends = 1 /\ Is401(oc) /\ HasAccess /\ ~StoredFresh
                   /\ ~HasRefresh /\ Respond(r, oc))
                 => /\ req'[r].pc = "done"
                    /\ Exchanging' = Exchanging]_vars

\* C9 witness: the provider got null for an expired stored token that has no
\* refresh token beside it
C9_Witness ==
    /\ provider.pc = "ready"
    /\ accessToken = Null
    /\ HasAccess /\ ~HasRefresh /\ ~StoredFresh

\* C10: isTokenExpired is true when no expiry is stored, and otherwise true
\* exactly when now >= E - 5 minutes for the stored expiry instant E.
C10_ExpiryReference ==
    isTokenExpired(storage, clock) =
        IF ~HasExpiry THEN TRUE
        ELSE clock >= parseDate(storage["expires"]) - 5 * 60 * 1000

\* C10 witness: the clock stands exactly five minutes before the stored
\* expiry and a call of getValidAccessToken has taken the token for expired
C10_Witness ==
    /\ HasExpiry /\ clock = parseDate(storage["expires"]) - 5 * 60 * 1000
    /\ getItem(storage, "access_token") = "abc"
    /\ provider.pc = "refreshing"

\* ---------------------------------------------------------------- C11
NoContent(oc) == oc.kind = "response" /\ oc.status = 204

\* C11: a call of getCurrentPlayback or getCurrentlyPlaying whose HTTP
\* response has status 204 resolves to null for the caller, and not by way
\* of an error: the request's promise is not rejected on the way.
\* The code does not do this: axios resolves a 204 like every 2xx, so
\* apiClient.get returns response.data, the empty body, and the method
\* returns it as it is; its catch, which alone returns null, is never entered.
C11_NoContentGivesNull ==
    [][\A oc \in PlaybackOutcomes :
         (NoContent(oc) /\ svc.op \in PlaybackReads /\ ServiceRespond(oc))
         => /\ svc'.pc = "done"
            /\ svc'.result.kind = "resolved"
            /\ svc'.result.data = Null
            /\ req'[ServiceRequest].result.kind = "resolved"]_vars

\* a getCurrentPlayback call answered with 204 has settled
C11_Witness ==
    /\ svc.op = "getCurrentPlayback"
    /\ svc.pc = "done"
    /\ svc.result.status = 204
    /\ svc.result.kind = "resolved"

\* ---------------------------------------------------------------- C12
HasVerifier == Truthy(getItem(storage, "code_verifier"))

\* C12: when fetchToken calls getToken and localStorage has no code_verifier,
\* getToken throws 'Code verifier not found in localStorage', no request to
\* the token endpoint goes out, and localStorage stays as it was.
C12_MissingVerifierFailsEarly ==
    [][(~HasVerifier /\ FetchTokenCode)
       => /\ getToken(storage).kind = "throw"
          /\ getToken(storage).message = "Code verifier not found in localStorage"
          /\ provider'.pc # "exchanging"
          /\ storage' = storage]_vars

\* the effect has run on the callback URL without a verifier
C12_Witness ==
    /\ ~HasVerifier
    /\ location = CallbackUrl
    /\ provider.pc = "ready"

\* ---------------------------------------------------------------- C13
NoTokenKeys(s) == DOMAIN s \cap TokenKeys = {}

\* C13: AuthProvider.logout and useAuthToken.logout each leave localStorage
\* without access_token, refresh_token, expires_in and expires and leave the
\* accessToken of their state null (useAuthToken its error too), so that
\* isAuthenticated is false when the logout has run.
C13_LogoutClears ==
    [][/\ Logout => /\ NoTokenKeys(storage')
                    /\ accessToken' = Null
                    /\ ~Truthy(accessToken')
       /\ HookLogout => /\ NoTokenKeys(storage')
                        /\ hook'.accessToken = Null
                        /\ hook'.error = Null
                        /\ ~isAuthenticated(hook')]_vars

\* useAuthToken.logout has run on a hook that held a token, after a logout
\* of the provider
C13_Witness ==
    /\ Truthy(hook.effectDep)
    /\ hook.effectDep # "unmounted"
    /\ hook.accessToken = Null
    /\ hook.error = Null
    /\ ~hook.isLoading
    /\ \A c \in Calls : hook.calls[c].pc = "idle"
    /\ accessToken = Null
    /\ NoTokenKeys(storage)

\* ---------------------------------------------------------------- C14
\* C14: a credential held in the AuthProvider's state, and a credential a
\* query puts in its first Authorization header, has been returned by
\* getValidAccessToken: fetchToken's call of it has come back (no code is
\* exchanged in this specification).
\* The code does not do this: the state starts as
\* localStorage.getItem("access_token"), read without the expiry check, and
\* queries go out with it while fetchToken has not yet set the state.
C14_CredentialsFromAccessor ==
    /\ Truthy(accessToken) => provider.pc = "ready"
    /\ \A r \in Requests :
         (req[r].pc = "sent" /\ ~req[r].retry) => provider.pc = "ready"

\* a query is out with the stored credential, which is expired, before
\* fetchToken has obtained one from getValidAccessToken
C14_Witness ==
    /\ provider.pc # "ready"
    /\ isTokenExpired(storage, clock)
    /\ \E r \in Requests :
         /\ req[r].pc = "sent"
         /\ req[r].auth = Bearer(getItem(storage, "access_token"))

\* ---------------------------------------------------------------- C15
\* C15: every failure ends in an outcome its caller can observe, unless the
\* one retry recovers it: a failed Web API request is retried or rejected; a
\* failed refresh exchange of an interceptor rejects the request and
\* redirects to /login; a failed refresh exchange of fetchToken or of the
\* hook leaves a null accessToken, the hook an error; a failed authorization-
\* code exchange leaves a null accessToken or redirects to /login.
\* The code does not do the last: fetchToken's catch prints the error and
\* nothing else, so a provider that started with a stored credential goes
\* on handing it out.
C15_FailuresSurface ==
    [][/\ \A r \in Requests, oc \in ApiOutcomes :
            (~isSuccess(oc) /\ Respond(r, oc))
            => \/ req'[r].pc \in {"sent", "refreshing"}
               \/ req'[r].result.kind = "rejected"
       /\ \A r \in Requests, ans \in TokenAnswers :
            (Failed(ans) /\ RefreshSettle(r, ans))
            => req'[r].result.kind = "rejected" /\ location' = "/login"
       /\ \A ans \in TokenAnswers :
            (Failed(ans) /\ FetchTokenSettle(ans)) => accessToken' = Null
       /\ \A c \in Calls, ans \in TokenAnswers :
            (Failed(ans) /\ HookSettle(c, ans))
            => hook'.accessToken = Null /\ hook'.error # Null
       /\ \A ans \in CodeAnswers :
            (Failed(ans) /\ CodeSettle(ans))
            => accessToken' = Null \/ location' = "/login"]_vars

\* an authorization-code exchange has failed and the provider still holds
\* the credential it read from localStorage
C15_Witness ==
    /\ location = CallbackUrl
    /\ HasVerifier
    /\ provider.pc = "ready"
    /\ Truthy(accessToken)

\* ---------------------------------------------------------------- C16
\* C16: a request answered 401 that has not been retried is not sent again
\* before a refresh exchange with the token endpoint: it waits for one, or
\* it is not retried.
\* The code does not do this: with a stored credential that isTokenExpired
\* calls fresh, getValidAccessToken returns it without an exchange and the
\* interceptor sends the request again at once, with the credential that
\* was refused.
C16_RefreshBeforeRetry ==
    [][\A r \in Requests, oc \in ApiOutcomes :
         (Is401(oc) /\ ~req[r].retry /\ Respond(r, oc))
         => req'[r].pc # "sent"]_vars

\* a request is out for the second time with the credential it was refused
\* with, no exchange having taken place
C16_Witness ==
    \E r \in Requests :
        /\ req[r].pc = "sent"
        /\ req[r].retry
        /\ req[r].sends = 2
        /\ req[r].auth = Bearer("abc")
        /\ getItem(storage, "access_token") = "abc"

\* ---------------------------------------------------------------- C17
\* the hook state that matches an outcome of getValidAccessToken
MatchesValue(h, v) ==
    IF Truthy(v)
    THEN h.accessToken = v /\ h.error = Null
    ELSE h.accessToken = Null /\ h.error = "No valid token available"

MatchesThrow(h) == h.accessToken = Null /\ h.error = FaultMessage

\* the ways refreshToken is called
Started(c, fault) ==
    \/ TokenEffect(c, fault)
    \/ TokenInterval(c, fault)
    \/ RefreshTokenCall(c, fault)
    \/ ForceRefresh(c, fault)

\* C17: when a refreshToken call completes, with or without other calls in
\* progress, the hook's accessToken and error match what getValidAccessToken
\* gave that call: T and null, null and 'No valid token available', or null
\* and the message of what it threw.
\* The code does not do this for overlapping calls: a call clears error only
\* when it starts, so a call that completes with a credential after another
\* call has completed without one leaves that credential beside the other
\* call's error.
C17_StateMatchesOutcome ==
    [][/\ \A c \in Calls, ans \in TokenAnswers :
            HookSettle(c, ans)
            => MatchesValue(hook', refreshSettled(storage, clock, getRefreshToken(ans)).value)
       /\ \A c \in Calls, fault \in Faults :
            (Started(c, fault) /\ hook'.calls[c].pc = "idle")
            => IF fault THEN MatchesThrow(hook')
               ELSE MatchesValue(hook', getValidAccessToken(storage, clock).value)]_vars

\* a credential beside an error, no call in progress
C17_Witness ==
    /\ Truthy(hook.accessToken)
    /\ hook.error = "No valid token available"
    /\ \A c \in Calls : hook.calls[c].pc = "idle"

\* ---------------------------------------------------------------- C18
\* C18: isLoading is true when the hook is created; every refreshToken call
\* that completes leaves isLoading false, whether getValidAccessToken gave
\* a credential, gave null or threw; and every call that waits for an
\* exchange completes, the token endpoint answering every exchange.
C18_LoadingEnds ==
    /\ hook.isLoading
    /\ [][/\ \A c \in Calls, ans \in TokenAnswers :
               HookSettle(c, ans) => ~hook'.isLoading
          /\ \A c \in Calls, fault \in Faults :
               (Started(c, fault) /\ hook'.calls[c].pc = "idle") => ~hook'.isLoading]_vars
    /\ \A c \in Calls :
         (hook.calls[c].pc = "waiting") ~> (hook.calls[c].pc = "idle" /\ ~hook.isLoading)

\* a call whose getValidAccessToken threw has completed
C18_Witness ==
    /\ hook.error = FaultMessage
    /\ hook.accessToken = Null
    /\ ~hook.isLoading
    /\ \A c \in Calls : hook.calls[c].pc = "idle"

\* ---------------------------------------------------------------- C19
VolumeMessage == "Volume percent must be between 0 and 100"

\* C19: setPlaybackVolume called with a volume below 0 or above 100 rejects
\* with 'Volume percent must be between 0 and 100' and calls nothing on its
\* apiClient, so no request goes out; called with a volume from 0 to 100 it
\* makes one call, apiClient.put('/me/player/volume', null, {params}), sent
\* once, whose params carry that volume_percent, and a device_id only if a
\* deviceId was passed, and then that one.
C19_VolumeRange ==
    [][\A v \in Volumes, d \in DeviceIds :
         ServiceCall("setPlaybackVolume", v, d)
         => IF v < 0 \/ v > 100
            THEN /\ svc'.result.kind = "rejected"
                 /\ svc'.result.message = VolumeMessage
                 /\ svc'.calls = <<>>
                 /\ req' = req
            ELSE /\ Len(svc'.calls) = 1
                 /\ svc'.calls[1].method = "put"
                 /\ svc'.calls[1].url = "/me/player/volume"
                 /\ svc'.calls[1].params.volume_percent = v
                 /\ svc'.calls[1].params.device_id # Null => d # Null
                 /\ Truthy(d) => svc'.calls[1].params.device_id = d
                 /\ req'[ServiceRequest].sends = 1
                 /\ svc'.result.kind = "none"]_vars

\* setPlaybackVolume(100, 'device1') has put its request
C19_Witness ==
    /\ svc.op = "setPlaybackVolume"
    /\ svc.volumePercent = 100
    /\ svc.deviceId = "device1"
    /\ svc.pc = "waiting"
    /\ Len(svc.calls) = 1

\* ---------------------------------------------------------------- C20
\* C20: in every state reached through authorization-code exchanges,
\* refreshes that succeed or fail, and logouts, localStorage holds expires
\* whenever it holds access_token.
C20_AccessImpliesExpires == HasAccess => HasExpiry

\* an authorization-code exchange has stored its tokens
C20_Witness ==
    /\ HasAccess
    /\ storage["access_token"] \in NewAccessTokens
    /\ HasExpiry
    /\ HasVerifier
    /\ provider.pc = "mount"
    /\ req[ServiceRequest].pc = "idle"

\* ---------------------------------------------------------------- C21
\* C21: refreshes are not coalesced.  A request answered 401 for the first
\* time while the stored credential is expired and a refresh token is stored
\* has its interceptor call getValidAccessToken and start a refresh exchange
\* of its own, whether or not another request's exchange is in flight; the
\* other requests are left as they are.
C21_NoSingleFlight ==
    [][\A r \in Requests, oc \in ApiOutcomes :
         (/\ Is401(oc)
          /\ ~req[r].retry
          /\ HasAccess /\ HasRefresh /\ ~StoredFresh
          /\ Respond(r, oc))
         => /\ req'[r].pc = "refreshing"
            /\ req'[r].calls = req[r].calls + 1
            /\ req'[r].rt = storage["refresh_token"]
            /\ \A q \in Requests \ {r} : req'[q] = req[q]]_vars

\* two refresh exchanges are in flight at the same time
C21_Witness ==
    /\ Cardinality(Exchanging) = 2
    /\ \A r \in Requests : req[r].calls = 1

\* ---------------------------------------------------------------- C22
\* the store holds what an earlier exchange wrote, and it is not what this
\* response carries
HoldsEarlierResult(resp) ==
    /\ getItem(storage, "access_token") \in NewAccessTokens
    /\ getItem(storage, "access_token") # resp.access_token

\* C22: last write wins.  When a refresh exchange succeeds while the store
\* holds the result of another exchange that was answered before it, the
\* store afterwards holds the access_token, expires_in and expires of the
\* response processed now: the earlier result is overwritten, for the
\* interceptors' exchanges and for fetchToken's.
C22_LastWriteWins ==
    [][/\ \A r \in Requests, ans \in TokenAnswers :
            (Issued(ans) /\ HoldsEarlierResult(ans.body) /\ RefreshSettle(r, ans))
            => /\ StoredAfter(ans.body)
               /\ storage'["access_token"] # storage["access_token"]
       /\ \A ans \in TokenAnswers :
            (Issued(ans) /\ HoldsEarlierResult(ans.body) /\ FetchTokenSettle(ans))
            => /\ StoredAfter(ans.body)
               /\ storage'["access_token"] # storage["access_token"]]_vars

\* two exchanges have succeeded, request 1's with "xyz" and then request
\* 2's with "uvw"; the store holds the second result
C22_Witness ==
    /\ req[1].pc = "sent" /\ req[1].retry /\ req[1].auth = Bearer("xyz")
    /\ req[2].pc = "sent" /\ req[2].retry /\ req[2].auth = Bearer("uvw")
    /\ getItem(storage, "access_token") = "uvw"
    /\ getItem(storage, "expires_in") = ToString(420)

\* ---------------------------------------------------------------- C23
\* this step stores an expires that was not there, or another one
ExpiresWritten ==
    /\ "expires" \in DOMAIN storage'
    /\ "expires" \in DOMAIN storage => storage'["expires"] # storage["expires"]

\* C23: a step that stores a new expires stores the clock of that step plus
\* the expires_in it stores, taken as seconds; a step changes expires only if
\* it is an issuance or a refresh, which writes access_token and expires_in
\* with it, or if it clears the four keys of the record.
C23_ExpiresDerivedAtWrite ==
    [][/\ ExpiresWritten
            => /\ \E d \in Durations :
                    /\ getItem(storage', "expires_in") = ToString(d)
                    /\ parseDate(storage'["expires"]) = clock + d * 1000
               /\ getItem(storage', "access_token") \in NewAccessTokens
               /\ (\E ans \in CodeAnswers : CodeSettle(ans))
                  \/ (\E ans \in TokenAnswers : FetchTokenSettle(ans))
                  \/ (\E r \in Requests, ans \in TokenAnswers : RefreshSettle(r, ans))
       /\ ("expires" \in DOMAIN storage /\ "expires" \notin DOMAIN storage')
            => NoTokenKeys(storage')]_vars

\* an authorization-code exchange answered with a duration of 420 s has
\* stored its expires
C23_Witness ==
    /\ HasExpiry
    /\ getItem(storage, "expires_in") = ToString(420)
    /\ parseDate(storage["expires"]) = clock + 420 * 1000
    /\ HasVerifier
    /\ location = "/"
    /\ provider.pc = "mount"
    /\ req[ServiceRequest].pc = "idle"

\* ---------------------------------------------------------------- C24
\* C24: no step of the credential lifecycle (the authorization-code
\* exchange, a refresh that succeeds or fails, a logout, a request and its
\* retry) removes or changes code_verifier.
C24_VerifierKept ==
    [][/\ ("code_verifier" \in DOMAIN storage') = ("code_verifier" \in DOMAIN storage)
       /\ getItem(storage', "code_verifier") = getItem(storage, "code_verifier")]_vars

\* the verifier is still stored after an authorization-code exchange, a
\* request whose refresh failed, and the clearing of the record
C24_Witness ==
    /\ HasVerifier
    /\ NoTokenKeys(storage)
    /\ location = "/login"
    /\ req[ServiceRequest].pc = "done"
    /\ req[ServiceRequest].retry
    /\ provider.pc = "ready"

\* ---------------------------------------------------------------- C25
\* an expired access_token is stored, with its expires and expires_in, and
\* no refresh_token
ExpiredWithoutRefresh(s, now) ==
    /\ Truthy(getItem(s, "access_token"))
    /\ "expires" \in DOMAIN s
    /\ "expires_in" \in DOMAIN s
    /\ parseDate(s["expires"]) <= now + 5 * 60 * 1000
    /\ "refresh_token" \notin DOMAIN s

\* C25: refreshAccessToken called while no refresh_token is stored returns
\* null and leaves localStorage as it is: the expired access_token, expires
\* and expires_in are still stored afterwards, in fetchToken's call and in an
\* interceptor's.
C25_NoRefreshTokenKeepsRecord ==
    [][/\ (ExpiredWithoutRefresh(storage, clock) /\ FetchToken)
            => /\ refreshAccessToken(storage).value = Null
               /\ storage' = storage
               /\ ExpiredWithoutRefresh(storage', clock')
               /\ accessToken' = Null
       /\ \A r \in Requests, oc \in ApiOutcomes :
            (/\ ExpiredWithoutRefresh(storage, clock)
             /\ Is401(oc) /\ ~req[r].retry
             /\ Respond(r, oc))
            => /\ refreshAccessToken(storage).value = Null
               /\ storage' = storage
               /\ ExpiredWithoutRefresh(storage', clock')
               /\ req'[r].pc = "done"]_vars

\* fetchToken has been given null and the expired record is still stored
C25_Witness ==
    /\ ExpiredWithoutRefresh(storage, clock)
    /\ provider.pc = "ready"
    /\ accessToken = Null

\* ---------------------------------------------------------------- C26
\* C26: when getToken throws in fetchToken, before its request for want of
\* a verifier or after it on a refusal or a network failure, the step
\* writes nothing to localStorage and leaves the provider's accessToken as
\* it was.
C26_RejectedExchangeWritesNothing ==
    [][/\ \A ans \in CodeAnswers :
            (Failed(ans) /\ CodeSettle(ans))
            => /\ getTokenSettled(ans).kind = "throw"
               /\ storage' = storage
               /\ accessToken' = accessToken
       /\ (getToken(storage).kind = "throw" /\ FetchTokenCode)
            => /\ storage' = storage
               /\ accessToken' = accessToken]_vars

\* a user without a stored record is back from a refused exchange
C26_Witness ==
    /\ location = CallbackUrl
    /\ HasVerifier
    /\ provider.pc = "ready"
    /\ NoTokenKeys(storage)
    /\ accessToken = Null

\* ---------------------------------------------------------------- C27
\* C27: once logout has removed the record, localStorage holds no
\* access_token again (no authorization code is exchanged in this
\* specification, and with every refresh answered by a token nothing but
\* logout removes the record), whatever was in flight when logout ran.
\* The code does not do this: logout does not cancel a refresh exchange in
\* flight, and refreshAccessToken, resumed with the answer, stores its
\* tokens in the emptied localStorage.
C27_NoCredentialAfterLogout ==
    [][NoTokenKeys(storage) => "access_token" \notin DOMAIN storage']_vars

\* the provider is logged out and localStorage holds a token that an
\* interceptor's exchange stored afterwards
C27_Witness ==
    /\ provider.pc = "ready"
    /\ accessToken = Null
    /\ getItem(storage, "access_token") \in NewAccessTokens
    /\ HasExpiry

\* ---------------------------------------------------------------- C28
\* the store holds the result of an exchange that overlapped the ones still
\* in flight: it has been fresh ever since it was written, so an exchange in
\* flight was started before that
HoldsOverlappingResult ==
    /\ getItem(storage, "access_token") \in NewAccessTokens
    /\ StoredFresh

\* C28: when of two overlapping refresh exchanges one has succeeded and the
\* other then fails, the store still holds the access_token the successful
\* one wrote.
\* The code does not do this: the catch block of refreshAccessToken removes
\* the four keys whatever they hold, so a failure processed after the
\* success removes the credential just stored.
C28_SuccessNotUndone ==
    [][/\ \A r \in Requests, ans \in TokenAnswers :
            (Failed(ans) /\ HoldsOverlappingResult /\ RefreshSettle(r, ans))
            => getItem(storage', "access_token") = getItem(storage, "access_token")
       /\ \A ans \in TokenAnswers :
            (Failed(ans) /\ HoldsOverlappingResult /\ FetchTokenSettle(ans))
            => getItem(storage', "access_token") = getItem(storage, "access_token")]_vars

\* request 1 is out again with the "xyz" its exchange stored, and the store
\* is empty after request 2's exchange has failed
C28_Witness ==
    /\ req[1].pc = "sent" /\ req[1].retry /\ req[1].auth = Bearer("xyz")
    /\ req[2].pc = "done" /\ req[2].retry
    /\ location = "/login"
    /\ NoTokenKeys(storage)
    /\ Truthy(accessToken)
    /\ clock = ClockStart

\* ---------------------------------------------------------------- C29
\* no refreshToken call is in progress and the effect has run for the
\* accessToken the hook holds, so that it will not run again
HookStable ==
    /\ hook.effectDep = hook.accessToken
    /\ \A c \in Calls : hook.calls[c].pc = "idle"

\* C29: left to itself after its mount, the hook calls getValidAccessToken
\* finitely often and then stays in a stable state, whatever tokens and
\* durations the token endpoint answers with.
\* The code does not do this: a token whose expires_in is at most the five
\* minutes of isTokenExpired's buffer is expired as soon as it is stored, so
\* the effect that runs for the new accessToken starts another exchange, and
\* with another token in every answer this goes on for ever.
C29_EffectsSettle == <>[]HookStable

\* the effect has run again for a token just obtained and waits for another
\* exchange, the stored token being already expired
C29_Witness ==
    /\ hook.accessToken \in NewAccessTokens
    /\ hook.effectDep = hook.accessToken
    /\ getItem(storage, "access_token") = hook.accessToken
    /\ \E c \in Calls : hook.calls[c].pc = "waiting"
    /\ clock = ClockStart

\* ---------------------------------------------------------------- C30
\* C30: once 'ready' has delivered a device id, a 'player_state_changed'
\* event leaves playerState.device_id equal to that id.
\* The code does not do this: the listener builds a new PlayerState with
\* device_id null, so that the first state the SDK reports erases the id.
C30_DeviceIdKept ==
    [][\A state \in SdkStates :
          (playerHook.playerState.device_id # Null /\ PlayerStateChanged(state))
             => playerHook'.playerState.device_id
                  = playerHook.playerState.device_id]_vars

\* the player is connected and ready and has reported a track, and the hook
\* holds no device id
C30_Witness ==
    /\ playerHook.ref
    /\ playerHook.isReady
    /\ playerHook.playerState.current_track # Null
    /\ playerHook.playerState.device_id = Null
====
